---- MODULE Spec2Model ----
(***************************************************************************)
(* A model of src/app.py (cabf05/appcaixadia): the cash-flow pipeline of   *)
(* a Streamlit app.  CSV tables are loaded, resolved to a kind by their    *)
(* headers, turned into signed transactions, and aggregated into a daily   *)
(* ledger whose cumulative balance is anchored to an opening balance on a  *)
(* chosen date.                                                            *)
(*                                                                         *)
(* Representation choices.                                                 *)
(*  - A text is a sequence of one-character strings.                       *)
(*  - A money value is an integer number of 1/Scale units (exact decimal   *)
(*    arithmetic; binary floating-point rounding is not modelled).         *)
(*  - A timestamp is day * TicksPerDay + tick-of-day; tick 0 is midnight.  *)
(*    A calendar date is the day number.                                   *)
(*  - A DataFrame cell is NaN (an empty CSV field), a number (a column    *)
(*    pandas inferred as numeric) or a str.                                *)
(***************************************************************************)
EXTENDS Integers, Sequences, FiniteSets, TLC

\* ------------------------------------------------------------------ bounds
\* Calendar days of the model are 0..MaxDay.
MaxDay == 2
\* Instants per day the model distinguishes (tick 0 is 00:00:00).
TicksPerDay == 2
\* Digits after the decimal point the model keeps of a parsed amount.
FracDigits == 1
\* Rows per table in the row-processing specification.
MaxRows == 2
\* Characters per enumerated amount text in the amount-parsing specification.
MaxLen == 5

\* --------------------------------------------------------- program constants
\* timedelta(days=365*10): how far before earliest_date the anchor may be set.
AnchorDaysBefore == 3650
\* timedelta(days=365): how far after earliest_date the anchor may be set.
AnchorDaysAfter == 365

Scale == 10 ^ FracDigits
Days == 0..MaxDay
Ticks == 0..(TicksPerDay - 1)

None == [kind |-> "None"]

VARIABLES
    \* st.session_state
    data_loaded, all_transactions_df, earliest_date, initial_balance_date,
    initial_balance_amount, processed_dfs,
    \* the upload slots (st.session_state.pagas / apagar / receber)
    files,
    \* what the last rerun of main() rendered
    cash_flow_summary, kpi,
    \* the row-processing specification: one table and what the loop body made of it
    df, processed,
    \* the schema-resolution specification: a header set and its resolved kind
    df_cols, file_type,
    \* the amount-parsing specification: a cell and what parse_decimal_br returns for it
    amount_cell, parsed

vars == <<data_loaded, all_transactions_df, earliest_date, initial_balance_date,
          initial_balance_amount, processed_dfs, files, cash_flow_summary, kpi,
          df, processed, df_cols, file_type,
          amount_cell, parsed>>

\* ------------------------------------------------------------------- cells
NaN == [kind |-> "nan"]
StrCell(t) == [kind |-> "str", text |-> t]
NumCell(n) == [kind |-> "num", val |-> n]
\* pd.isna(x): an empty CSV field, or the None that row.get gives for a missing column
isna(x) == x.kind \in {"nan", "None"}

\* ------------------------------------------------------------ text helpers
DigitChars == <<"0", "1", "2", "3", "4", "5", "6", "7", "8", "9">>
isdigit(c) == \E i \in 1..10 : DigitChars[i] = c
DigitVal(c) == (CHOOSE i \in 1..10 : DigitChars[i] = c) - 1

RECURSIVE lstrip(_)
lstrip(s) == IF s # <<>> /\ Head(s) = " " THEN lstrip(Tail(s)) ELSE s

RECURSIVE rstrip(_)
rstrip(s) == IF s # <<>> /\ s[Len(s)] = " " THEN rstrip(SubSeq(s, 1, Len(s) - 1)) ELSE s

\* str.strip()
strip(s) == rstrip(lstrip(s))

\* str.replace("R$", ""): one left-to-right pass
RECURSIVE replace_currency(_)
replace_currency(s) ==
    IF Len(s) < 2 THEN s
    ELSE IF s[1] = "R" /\ s[2] = "$" THEN replace_currency(SubSeq(s, 3, Len(s)))
    ELSE <<Head(s)>> \o replace_currency(Tail(s))

\* c in s
contains(s, c) == \E i \in 1..Len(s) : s[i] = c

\* s.rfind(c) as a 0-based index, -1 when c is not in s
rfind(s, c) ==
    IF contains(s, c) THEN (CHOOSE i \in 1..Len(s) : s[i] = c /\ \A j \in (i + 1)..Len(s) : s[j] # c) - 1
    ELSE -1

\* s.replace(".", "")
remove_dots(s) == SelectSeq(s, LAMBDA c : c # ".")

\* s.replace(",", ".")
comma_to_dot(s) == [i \in 1..Len(s) |-> IF s[i] = "," THEN "." ELSE s[i]]

\* The digits of s read as a decimal integer (0 for the empty text).
RECURSIVE digits_value(_)
digits_value(s) ==
    IF s = <<>> THEN 0 ELSE 10 * digits_value(SubSeq(s, 1, Len(s) - 1)) + DigitVal(s[Len(s)])

\* The first FracDigits digits after the point, as a number of 1/Scale units.
frac_value(s) ==
    LET kept == SubSeq(s, 1, IF Len(s) < FracDigits THEN Len(s) ELSE FracDigits)
    IN  digits_value(kept) * (10 ^ (FracDigits - Len(kept)))

\* The unsigned part of a float literal: digits, at most one point, at least one digit.
unsigned_ok(s) ==
    /\ \A i \in 1..Len(s) : isdigit(s[i]) \/ s[i] = "."
    /\ Cardinality({i \in 1..Len(s) : s[i] = "."}) <= 1
    /\ \E i \in 1..Len(s) : isdigit(s[i])

unsigned_value(s) ==
    IF contains(s, ".")
    THEN LET p == rfind(s, ".") + 1
         IN  digits_value(SubSeq(s, 1, p - 1)) * Scale + frac_value(SubSeq(s, p + 1, Len(s)))
    ELSE digits_value(s) * Scale

has_sign(s) == s # <<>> /\ Head(s) \in {"+", "-"}

\* float(s) succeeds: surrounding whitespace, an optional sign, an unsigned literal.
\* (Exponents, inf, nan and digit-group underscores need characters the model's
\* texts never hold.)
float_ok(s) ==
    LET t == strip(s) IN unsigned_ok(IF has_sign(t) THEN Tail(t) ELSE t)

float_value(s) ==
    LET t == strip(s)
    IN  IF has_sign(t)
        THEN (IF Head(t) = "-" THEN -1 ELSE 1) * unsigned_value(Tail(t))
        ELSE unsigned_value(t)

\* -------------------------------------------------------- parse_decimal_br
parse_decimal_br(value_str) ==
    IF isna(value_str) \/ value_str.kind # "str" THEN 0
    ELSE IF strip(value_str.text) = <<>> THEN 0
    ELSE
      LET s0 == strip(replace_currency(value_str.text))
          s1 == IF contains(s0, ",") /\ contains(SubSeq(s0, 1, rfind(s0, ",")), ".")
                THEN remove_dots(s0) ELSE s0
          s2 == comma_to_dot(s1)
          cleaned_s == SelectSeq(s2, LAMBDA x : isdigit(x) \/ x = ".")
      IN  IF s0 = <<>> THEN 0
          ELSE IF float_ok(s2) THEN float_value(s2)
          ELSE IF float_ok(cleaned_s) THEN float_value(cleaned_s)
          ELSE 0


\* -------------------------------------------------------------- parse_date
\* A date text is [fmt, day, tick]: the strptime format its characters follow,
\* the calendar day and the time of day they spell.  A text in one of the two
\* date-only formats spells no time of day (tick 0).
formats_to_try == <<"%Y-%m-%d %H:%M:%S", "%Y-%m-%d", "%d/%m/%Y %H:%M:%S", "%d/%m/%Y">>

datetime(day, tick) == [kind |-> "datetime", ts |-> day * TicksPerDay + tick]

\* datetime.strptime(text, fmt): the value, or None for the ValueError
strptime(text, fmt) ==
    IF text.fmt # fmt THEN None
    ELSE IF fmt \in {"%Y-%m-%d", "%d/%m/%Y"} THEN datetime(text.day, 0)
    ELSE datetime(text.day, text.tick)

RECURSIVE try_formats(_, _)
try_formats(text, i) ==
    IF i > Len(formats_to_try) THEN None
    ELSE IF strptime(text, formats_to_try[i]) # None THEN strptime(text, formats_to_try[i])
    ELSE try_formats(text, i + 1)

parse_date(date_str) ==
    IF isna(date_str) THEN None
    \* str() of a numeric cell follows none of the formats
    ELSE IF date_str.kind # "str" THEN None
    ELSE try_formats(date_str.text, 1)

\* ------------------------------------------------------- identify_csv_type
COLS_PAGAS_IDENTIFIERS == {"Data pagamento", "Valor Líquido", "Usuário cadastro baixa", "Desc forma pagto"}
COLS_A_PAGAR_IDENTIFIERS == {"Origem título", "Usuário cadastro", "Data alteração", "Código plano fin"}
COLS_RECEBER_RECEBIDAS_IDENTIFIERS == {"Status da parcela", "Nosso número", "Valor da baixa", "Valor devido"}

PotencialPagas == "Potencial Contas Pagas/Pagar (Verificar colunas Data Pagamento vs Data Vencimento)"

\* identify_csv_type whose first test does not look at 'Status da parcela'
identify_csv_type_any_status(cols) ==
    IF COLS_PAGAS_IDENTIFIERS \subseteq cols
    THEN (IF "Data pagamento" \in cols /\ "Usuário cadastro baixa" \in cols
          THEN "Contas Pagas"
          ELSE PotencialPagas)
    ELSE IF /\ COLS_A_PAGAR_IDENTIFIERS \subseteq cols
            /\ "Data pagamento" \notin cols
            /\ "Status da parcela" \notin cols
            /\ "Valor corr monetária" \in cols
            /\ "Data cadastro" \in cols
            /\ "Código forma pagto" \in cols
    THEN "Contas a Pagar"
    ELSE IF COLS_RECEBER_RECEBIDAS_IDENTIFIERS \subseteq cols
    THEN "Contas a Receber/Recebidas"
    ELSE "Desconhecido"

identify_csv_type(cols) ==
    IF COLS_PAGAS_IDENTIFIERS \subseteq cols /\ "Status da parcela" \notin cols
    THEN (IF "Data pagamento" \in cols /\ "Usuário cadastro baixa" \in cols
          THEN "Contas Pagas"
          ELSE PotencialPagas)
    ELSE IF /\ COLS_A_PAGAR_IDENTIFIERS \subseteq cols
            /\ "Data pagamento" \notin cols
            /\ "Status da parcela" \notin cols
            /\ "Valor corr monetária" \in cols
            /\ "Data cadastro" \in cols
            /\ "Código forma pagto" \in cols
    THEN "Contas a Pagar"
    ELSE IF COLS_RECEBER_RECEBIDAS_IDENTIFIERS \subseteq cols
    THEN "Contas a Receber/Recebidas"
    ELSE "Desconhecido"

\* ---------------------------------------------------- load_and_process_csv
\* A supplied file is [readable, columns, rows]: whether pd.read_csv can read it,
\* its raw headers [name, pad] (pad: the header carries trailing whitespace) and
\* its rows, each a function from raw header to cell.
\* col.strip() of a raw header
strip_col(h) == h.name

\* pd.read_csv and the column clean-up: the DataFrame [columns, rows]
read_csv(file) ==
    [columns |-> {strip_col(h) : h \in file.columns},
     rows |-> [i \in 1..Len(file.rows) |->
                 [c \in {strip_col(h) : h \in file.columns} |->
                     file.rows[i][CHOOSE h \in file.columns : strip_col(h) = c]]]]

\* <<df, file_type>>, or (None, None) for an unreadable or unrecognized file
\* (the absent file type is written "None": file types are strings)
load_and_process_csv(file) ==
    IF ~file.readable THEN <<None, "None">>
    ELSE LET d == read_csv(file)
             t == identify_csv_type(d.columns)
         IN  IF t = "Desconhecido" THEN <<None, "None">> ELSE <<d, t>>

\* ------------------------------------------------------------ row helpers
\* row.get(col, default)
get(row, col, default) == IF col \in DOMAIN row THEN row[col] ELSE default

\* df.drop_duplicates(subset=cols): the first row of every distinct key
drop_duplicates(rows, cols) ==
    LET same(i, j) == \A c \in cols : rows[i][c] = rows[j][c]
        kept == {i \in 1..Len(rows) : \A j \in 1..(i - 1) : ~same(i, j)}
        RECURSIVE pick(_)
        pick(i) == IF i > Len(rows) THEN <<>>
                   ELSE (IF i \in kept THEN <<rows[i]>> ELSE <<>>) \o pick(i + 1)
    IN  pick(1)

abs(v) == IF v < 0 THEN -v ELSE v

\* The rows of a list of (possibly absent) records, in order.
RECURSIVE flatten(_)
flatten(ss) == IF ss = <<>> THEN <<>> ELSE Head(ss) \o flatten(Tail(ss))

\* ---------------------------------------------------- process_contas_pagas
\* pagas_row keeping the sign written in the table
pagas_row_signed(row) ==
    LET data_pagamento == parse_date(get(row, "Data pagamento", None))
        valor_liquido == parse_decimal_br(get(row, "Valor Líquido", None))
    IN  IF data_pagamento # None /\ valor_liquido # 0
        THEN <<[Data |-> data_pagamento.ts,
                Valor |-> -valor_liquido,
                Tipo |-> "Realizado Saída",
                Detalhe |-> get(row, "Desc plano fin", get(row, "Desc centro custo", StrCell("Pagamento"))),
                Fonte |-> "Contas Pagas",
                Status |-> "Pago"]>>
        ELSE <<>>

pagas_row(row) ==
    LET data_pagamento == parse_date(get(row, "Data pagamento", None))
        valor_liquido == parse_decimal_br(get(row, "Valor Líquido", None))
    IN  IF data_pagamento # None /\ valor_liquido # 0
        THEN <<[Data |-> data_pagamento.ts,
                Valor |-> -abs(valor_liquido),
                Tipo |-> "Realizado Saída",
                Detalhe |-> get(row, "Desc plano fin", get(row, "Desc centro custo", StrCell("Pagamento"))),
                Fonte |-> "Contas Pagas",
                Status |-> "Pago"]>>
        ELSE <<>>

\* process_contas_pagas with a key that leaves out 'Código credor'
process_contas_pagas_short_key(d) ==
    IF d = None THEN <<>>
    ELSE LET key_payment_cols == {"Título", "Parcela", "Data pagamento", "Valor Líquido"}
             actual_subset_cols == key_payment_cols \cap d.columns
             df_deduplicated == IF actual_subset_cols = {} THEN d.rows
                                ELSE drop_duplicates(d.rows, actual_subset_cols)
         IN  flatten([i \in 1..Len(df_deduplicated) |-> pagas_row(df_deduplicated[i])])

process_contas_pagas(d) ==
    IF d = None THEN <<>>
    ELSE LET key_payment_cols == {"Título", "Parcela", "Data pagamento", "Valor Líquido", "Código credor"}
             actual_subset_cols == key_payment_cols \cap d.columns
             df_deduplicated == IF actual_subset_cols = {} THEN d.rows
                                ELSE drop_duplicates(d.rows, actual_subset_cols)
         IN  flatten([i \in 1..Len(df_deduplicated) |-> pagas_row(df_deduplicated[i])])

\* -------------------------------------------------- process_contas_a_pagar
a_pagar_row(row) ==
    LET data_vencimento == parse_date(get(row, "Data vencimento", None))
        valor_a_pagar == parse_decimal_br(get(row, "Valor a pagar", None))
    IN  IF data_vencimento # None /\ valor_a_pagar # 0
        THEN <<[Data |-> data_vencimento.ts,
                Valor |-> -abs(valor_a_pagar),
                Tipo |-> "Projetado Saída",
                Detalhe |-> get(row, "Desc plano fin", get(row, "Desc centro custo", StrCell("A Pagar"))),
                Fonte |-> "Contas a Pagar",
                Status |-> "A Pagar"]>>
        ELSE <<>>

process_contas_a_pagar(d) ==
    IF d = None THEN <<>>
    ELSE LET key_payable_cols == {"Título", "Parcela", "Data vencimento", "Valor a pagar", "Código credor"}
             actual_subset_cols == key_payable_cols \cap d.columns
             df_deduplicated == IF actual_subset_cols = {} THEN d.rows
                                ELSE drop_duplicates(d.rows, actual_subset_cols)
         IN  flatten([i \in 1..Len(df_deduplicated) |-> a_pagar_row(df_deduplicated[i])])

\* ---------------------------------------- process_contas_receber_recebidas
\* str(x).strip().lower() of a status cell.  A status text is one of the words
\* below, in the spelling the source file gives it.
status_lower(cell) ==
    IF cell.kind # "str" THEN "nan"
    ELSE CASE cell.text \in {"A Receber", "a receber", "A RECEBER "} -> "a receber"
           [] cell.text \in {"Cancelado", "cancelado"} -> "cancelado"
           [] cell.text \in {"Recebido", "recebido"} -> "recebido"
           [] OTHER -> cell.text

receber_row(row) ==
    LET status_parcela == status_lower(get(row, "Status da parcela", StrCell("")))
        data_baixa == parse_date(get(row, "Data da baixa", None))
        valor_baixa == parse_decimal_br(get(row, "Valor da baixa", None))
        data_vencimento == parse_date(get(row, "Data vencimento", None))
        valor_devido == parse_decimal_br(get(row, "Valor devido", None))
    IN  IF data_baixa # None /\ (valor_baixa # 0 \/ status_parcela \notin {"a receber", "cancelado"})
        THEN <<[Data |-> data_baixa.ts,
                Valor |-> abs(valor_baixa),
                Tipo |-> "Realizado Entrada",
                Detalhe |-> get(row, "Observação da baixa", StrCell("Recebimento")),
                Fonte |-> "Contas Recebidas",
                Status |-> "Recebido"]>>
        ELSE IF status_parcela = "a receber" /\ data_vencimento # None /\ valor_devido # 0
        THEN <<[Data |-> data_vencimento.ts,
                Valor |-> abs(valor_devido),
                Tipo |-> "Projetado Entrada",
                Detalhe |-> get(row, "Observação do título", StrCell("A Receber")),
                Fonte |-> "Contas a Receber",
                Status |-> "A Receber"]>>
        ELSE <<>>

process_contas_receber_recebidas(d) ==
    IF d = None THEN <<>>
    ELSE flatten([i \in 1..Len(d.rows) |-> receber_row(d.rows[i])])

\* ==================================================================== main
\* ------------------------------------------- the processing block (217-269)
\* datetime.date values; None stands for Python's None
date(d) == [kind |-> "date", day |-> d]

\* Timestamp.date(): the calendar day of a timestamp
date_of(ts) == ts \div TicksPerDay

\* pd.to_datetime(a date): midnight of that day
to_datetime(d) == d.day * TicksPerDay

\* files_to_process_from_upload + pasted_texts_to_process: the filled slots, in order
final_files_list(fs) ==
    flatten([i \in 1..Len(fs) |-> IF fs[i] = None THEN <<>> ELSE <<fs[i]>>])

\* One iteration of the loop over final_files_list, for the file that
\* load_and_process_csv turned into r = <<df_original, file_type>>: what it adds
\* to all_dfs_processed (a list of zero or one DataFrames of transactions)
processed_of(r) ==
    IF r[1] = None THEN <<>>
    ELSE IF r[2] = "Contas Pagas" THEN <<process_contas_pagas(r[1])>>
    ELSE IF r[2] = "Contas a Pagar" THEN <<process_contas_a_pagar(r[1])>>
    ELSE IF r[2] = "Contas a Receber/Recebidas" THEN <<process_contas_receber_recebidas(r[1])>>
    ELSE <<>>

\* all_dfs_processed of a loop that ends at the first file that did not load
all_dfs_processed_until_failure(loaded) ==
    LET failed == {i \in 1..Len(loaded) : loaded[i][1] = None}
        last == IF failed = {} THEN Len(loaded)
                ELSE (CHOOSE i \in failed : \A j \in failed : i <= j) - 1
    IN  flatten([i \in 1..last |-> processed_of(loaded[i])])

\* all_dfs_processed after the loop, from the loaded files
all_dfs_processed(loaded) == flatten([i \in 1..Len(loaded) |-> processed_of(loaded[i])])

\* st.session_state.processed_dfs after the loop: the last table of every kind met
processed_dfs_of(loaded) ==
    LET kinds == {loaded[i][2] : i \in 1..Len(loaded)} \ {"None"}
    IN  [k \in kinds |->
            loaded[CHOOSE i \in 1..Len(loaded) :
                      /\ loaded[i][2] = k
                      /\ \A j \in (i + 1)..Len(loaded) : loaded[j][2] # k][1]]

\* df.sort_values(by='Data'): ascending; rows of equal Data keep their order
RECURSIVE insert_sorted(_, _)
insert_sorted(sorted, t) ==
    IF sorted = <<>> THEN <<t>>
    ELSE IF sorted[Len(sorted)].Data <= t.Data THEN Append(sorted, t)
    ELSE Append(insert_sorted(SubSeq(sorted, 1, Len(sorted) - 1), t), sorted[Len(sorted)])

RECURSIVE sort_values(_)
sort_values(txs) ==
    IF txs = <<>> THEN <<>>
    ELSE insert_sorted(sort_values(SubSeq(txs, 1, Len(txs) - 1)), txs[Len(txs)])

min_ts(txs) == CHOOSE m \in {txs[i].Data : i \in 1..Len(txs)} : \A i \in 1..Len(txs) : m <= txs[i].Data
max_ts(txs) == CHOOSE m \in {txs[i].Data : i \in 1..Len(txs)} : \A i \in 1..Len(txs) : m >= txs[i].Data

\* processing_block without the reset of data_loaded at its start: a run that
\* yields no transaction leaves the flag as the previous run set it
processing_block_flag_kept(fs, old_earliest, old_anchor) ==
    LET list == final_files_list(fs)
        loaded == [i \in 1..Len(list) |-> load_and_process_csv(list[i])]
        dfs == all_dfs_processed(loaded)
        concat == sort_values(flatten(dfs))
    IN  IF list = <<>> \/ dfs = <<>> \/ concat = <<>>
        THEN [data_loaded |-> old_earliest # None,
              all_transactions_df |-> <<>>,
              earliest_date |-> old_earliest,
              initial_balance_date |-> old_anchor,
              processed_dfs |-> processed_dfs_of(loaded)]
        ELSE LET earliest == date(date_of(min_ts(concat)))
             IN  [data_loaded |-> TRUE,
                  all_transactions_df |-> concat,
                  earliest_date |-> earliest,
                  initial_balance_date |->
                      IF old_anchor = None \/ old_anchor.day > earliest.day
                      THEN earliest ELSE old_anchor,
                  processed_dfs |-> processed_dfs_of(loaded)]

\* The session after the processing block, for the slots fs:
\* [data_loaded, all_transactions_df, earliest_date, initial_balance_date, processed_dfs]
processing_block(fs, old_earliest, old_anchor) ==
    LET list == final_files_list(fs)
        loaded == [i \in 1..Len(list) |-> load_and_process_csv(list[i])]
        dfs == all_dfs_processed(loaded)
        concat == sort_values(flatten(dfs))
    IN  IF list = <<>> \/ dfs = <<>> \/ concat = <<>>
        THEN [data_loaded |-> FALSE,
              all_transactions_df |-> <<>>,
              earliest_date |-> old_earliest,
              initial_balance_date |-> old_anchor,
              processed_dfs |-> processed_dfs_of(loaded)]
        ELSE LET earliest == date(date_of(min_ts(concat)))
             IN  [data_loaded |-> TRUE,
                  all_transactions_df |-> concat,
                  earliest_date |-> earliest,
                  initial_balance_date |->
                      IF old_anchor = None \/ old_anchor.day > earliest.day
                      THEN earliest ELSE old_anchor,
                  processed_dfs |-> processed_dfs_of(loaded)]

\* --------------------------------------------- the daily ledger (305-390)
\* pd.date_range(start, end, freq='D'): start, start + 1 day, ... up to end
RECURSIVE date_range(_, _)
date_range(start, end) ==
    IF start > end THEN <<>> ELSE <<start>> \o date_range(start + TicksPerDay, end)

RECURSIVE sum_seq(_)
sum_seq(s) == IF s = <<>> THEN 0 ELSE Head(s) + sum_seq(Tail(s))

\* groupby(['Data', 'Tipo'])['Valor'].sum() merged on 'Data': the sum of the
\* transactions of one Tipo whose timestamp equals the bucket's (0 when none)
daily_flow(txs, ts, tipo) ==
    sum_seq([i \in 1..Len(txs) |->
                IF txs[i].Data = ts /\ txs[i].Tipo = tipo THEN txs[i].Valor ELSE 0])

\* cash_flow_summary before the cumulative column
flow_rows(txs, anchor_dt) ==
    LET min_date_calc == IF anchor_dt < min_ts(txs) THEN anchor_dt ELSE min_ts(txs)
        max_date_calc == IF anchor_dt > max_ts(txs) THEN anchor_dt ELSE max_ts(txs)
        range == date_range(min_date_calc, max_date_calc)
    IN  [i \in 1..Len(range) |->
            LET re == daily_flow(txs, range[i], "Realizado Entrada")
                rs == daily_flow(txs, range[i], "Realizado Saída")
                pe == daily_flow(txs, range[i], "Projetado Entrada")
                ps == daily_flow(txs, range[i], "Projetado Saída")
            IN  [Data |-> range[i],
                 RealizadoEntrada |-> re, RealizadoSaida |-> rs,
                 ProjetadoEntrada |-> pe, ProjetadoSaida |-> ps,
                 FluxoRealizadoDiario |-> re + rs,
                 FluxoProjetadoDiario |-> pe + ps]]

\* Series.cumsum() of 'Fluxo Realizado Diário', up to row i
cumsum(rows, i) == sum_seq([j \in 1..i |-> rows[j].FluxoRealizadoDiario])

\* The branch taken when the anchor's timestamp is a bucket (340-346)
\* posicao_found starting from the opening balance at the first bucket
posicao_from_first(rows, initial_balance, idx) ==
    [i \in 1..Len(rows) |-> cumsum(rows, i) + initial_balance]

posicao_found(rows, initial_balance, idx) ==
    LET sum_flows_before_initial == cumsum(rows, idx - 1)
        effective_start_balance == initial_balance - sum_flows_before_initial
    IN  [i \in 1..Len(rows) |-> cumsum(rows, i) + effective_start_balance]

\* The loop of the other branch (357-379): the column after rows 1..i, with the
\* loop's current_balance and found_initial_date
RECURSIVE posicao_loop(_, _, _, _)
posicao_loop(rows, anchor_dt, initial_balance, i) ==
    IF i = 0 THEN [col |-> <<>>, current_balance |-> 0, found_initial_date |-> FALSE]
    ELSE
      LET prev == posicao_loop(rows, anchor_dt, initial_balance, i - 1)
          flow == rows[i].FluxoRealizadoDiario
          step ==
            IF rows[i].Data = anchor_dt
            THEN [current_balance |-> initial_balance + flow, found_initial_date |-> TRUE]
            ELSE IF prev.found_initial_date
            THEN [current_balance |-> prev.current_balance + flow, found_initial_date |-> TRUE]
            ELSE IF anchor_dt <= rows[1].Data
            THEN [current_balance |-> initial_balance + flow,
                  found_initial_date |-> rows[i].Data >= anchor_dt]
            ELSE IF i > 1
            THEN [current_balance |-> prev.col[i - 1] + flow, found_initial_date |-> FALSE]
            ELSE [current_balance |-> flow, found_initial_date |-> FALSE]
      IN  [col |-> Append(prev.col, step.current_balance),
           current_balance |-> step.current_balance,
           found_initial_date |-> step.found_initial_date]

posicao_not_found(rows, anchor_dt, initial_balance) ==
    LET done == posicao_loop(rows, anchor_dt, initial_balance, Len(rows))
    IN  IF ~done.found_initial_date /\ rows # <<>> /\ anchor_dt < rows[1].Data
        THEN [i \in 1..Len(rows) |-> cumsum(rows, i) + initial_balance]
        ELSE done.col

\* 'Posição Caixa Acumulada'
posicao_caixa_acumulada(rows, anchor_dt, initial_balance) ==
    LET initial_date_idx == {i \in 1..Len(rows) : rows[i].Data = anchor_dt}
    IN  IF initial_date_idx # {}
        THEN posicao_found(rows, initial_balance,
                           CHOOSE i \in initial_date_idx : \A j \in initial_date_idx : i <= j)
        ELSE posicao_not_found(rows, anchor_dt, initial_balance)

\* cash_flow_summary: the rows with their cumulative position.  (Line 309 falls
\* back to today's date when no anchor is stored; a loaded session always stores one.)
build_cash_flow_summary(txs, anchor, initial_balance) ==
    LET anchor_dt == to_datetime(anchor)
        rows == flow_rows(txs, anchor_dt)
        pos == posicao_caixa_acumulada(rows, anchor_dt, initial_balance)
    IN  [i \in 1..Len(rows) |->
            [Data |-> rows[i].Data,
             RealizadoEntrada |-> rows[i].RealizadoEntrada,
             RealizadoSaida |-> rows[i].RealizadoSaida,
             ProjetadoEntrada |-> rows[i].ProjetadoEntrada,
             ProjetadoSaida |-> rows[i].ProjetadoSaida,
             FluxoRealizadoDiario |-> rows[i].FluxoRealizadoDiario,
             FluxoProjetadoDiario |-> rows[i].FluxoProjetadoDiario,
             PosicaoCaixaAcumulada |-> pos[i]]]

\* ----------------------------------------------------- the KPIs (394-405)
min_of(s) == CHOOSE m \in {s[i] : i \in 1..Len(s)} : \A i \in 1..Len(s) : m <= s[i]

kpis(kpi_data, initial_balance) ==
    LET total_realizado_entrada == sum_seq([i \in 1..Len(kpi_data) |-> kpi_data[i].RealizadoEntrada])
        total_realizado_saida == sum_seq([i \in 1..Len(kpi_data) |-> kpi_data[i].RealizadoSaida])
        total_projetado_entrada == sum_seq([i \in 1..Len(kpi_data) |-> kpi_data[i].ProjetadoEntrada])
        total_projetado_saida == sum_seq([i \in 1..Len(kpi_data) |-> kpi_data[i].ProjetadoSaida])
    IN  [total_realizado_entrada |-> total_realizado_entrada,
         total_realizado_saida |-> total_realizado_saida,
         saldo_realizado_periodo |-> total_realizado_entrada + total_realizado_saida,
         total_projetado_entrada |-> total_projetado_entrada,
         total_projetado_saida |-> total_projetado_saida,
         saldo_projetado_periodo |-> total_projetado_entrada + total_projetado_saida,
         resultado_final_periodo_realizado |->
             IF kpi_data # <<>> THEN kpi_data[Len(kpi_data)].PosicaoCaixaAcumulada
             ELSE initial_balance,
         min_caixa_realizado |->
             IF kpi_data # <<>>
             THEN min_of([i \in 1..Len(kpi_data) |-> kpi_data[i].PosicaoCaixaAcumulada])
             ELSE initial_balance]

\* What a rerun renders: the ledger when data is loaded (305), nothing otherwise
rendered_summary(loaded, txs, anchor, initial_balance) ==
    IF loaded /\ txs # <<>> THEN build_cash_flow_summary(txs, anchor, initial_balance) ELSE <<>>

\* ... and the KPIs of the rendered ledger
rendered_kpi(summary, initial_balance) ==
    IF summary # <<>> THEN kpis(summary, initial_balance) ELSE None

\* ------------------------------------------------------------ input tables
\* The columns of the three exports, and of a table of no known kind.
PagasColumns ==
    COLS_PAGAS_IDENTIFIERS \cup {"Título", "Parcela", "Código credor", "Desc centro custo"}
APagarColumns ==
    COLS_A_PAGAR_IDENTIFIERS \cup {"Valor corr monetária", "Data cadastro", "Código forma pagto",
                                   "Título", "Parcela", "Código credor", "Data vencimento",
                                   "Valor a pagar", "Desc centro custo"}
ReceberColumns ==
    COLS_RECEBER_RECEBIDAS_IDENTIFIERS \cup {"Data da baixa", "Data vencimento"}
OtherColumns == {"Data", "Valor"}

\* A readable file with the given columns; every row gives the cells it names
\* and leaves the others empty.
mk_file(cols, rows) ==
    [readable |-> TRUE,
     columns |-> {[name |-> c, pad |-> FALSE] : c \in cols},
     rows |-> [i \in 1..Len(rows) |->
                 [h \in {[name |-> c, pad |-> FALSE] : c \in cols} |->
                     IF h.name \in DOMAIN rows[i] THEN rows[i][h.name] ELSE NaN]]]

unreadable_file == [readable |-> FALSE, columns |-> {}, rows |-> <<>>]

\* Date texts with a time of day: every day at midnight and late in the day
DateTexts ==
    {[fmt |-> "%Y-%m-%d %H:%M:%S", day |-> d, tick |-> t] : d \in Days, t \in {0, TicksPerDay - 1}}
\* Payment dates of the paid rows: the first day at any time, the last day at midnight
PaymentDateTexts ==
    {[fmt |-> "%Y-%m-%d %H:%M:%S", day |-> 0, tick |-> t] : t \in Ticks} \cup
    {[fmt |-> "%Y-%m-%d", day |-> MaxDay, tick |-> 0]}

\* The slots of the session specification: one-row exports of each kind, an
\* unrecognized table and an unreadable file.  The pasted-text slots stay empty.
PagasSlot ==
    {None, unreadable_file, mk_file(OtherColumns, <<>>)} \cup
    {mk_file(PagasColumns, <<[c \in {"Data pagamento", "Valor Líquido"} |->
                                IF c = "Data pagamento" THEN StrCell(t)
                                ELSE StrCell(<<"3", ",", "0">>)]>>) : t \in PaymentDateTexts}
\* Due dates of the payable rows: the first day late in the day, the last day at midnight
DueDateTexts ==
    {[fmt |-> "%Y-%m-%d %H:%M:%S", day |-> 0, tick |-> TicksPerDay - 1],
     [fmt |-> "%d/%m/%Y", day |-> MaxDay, tick |-> 0]}
APagarSlot ==
    {None} \cup
    {mk_file(APagarColumns, <<[c \in {"Data vencimento", "Valor a pagar"} |->
                                 IF c = "Data vencimento" THEN StrCell(t)
                                 ELSE StrCell(<<"2", ",", "0">>)]>>) : t \in DueDateTexts}
ReceberSlot ==
    {None} \cup
    {mk_file(ReceberColumns, <<[c \in {"Status da parcela", "Data da baixa", "Valor da baixa"} |->
                                  IF c = "Data da baixa" THEN StrCell(t)
                                  ELSE IF c = "Valor da baixa" THEN StrCell(<<"5", ",", "0">>)
                                  ELSE StrCell("Recebido")]>>) : t \in DateTexts}

\* <<pagas, apagar, receber, text_pagas, text_apagar, text_receber>>
FileSlots ==
    {<<a, b, c, None, None, None>> : a \in PagasSlot, b \in APagarSlot, c \in ReceberSlot}

\* Opening balances the user may type
Balances == {0, 7 * Scale}

\* ------------------------------------------------- the session, as actions
Init ==
    /\ data_loaded = FALSE
    /\ all_transactions_df = <<>>
    /\ earliest_date = None
    /\ initial_balance_date = None
    /\ initial_balance_amount = 0
    /\ processed_dfs = <<>>
    /\ files = <<None, None, None, None, None, None>>
    /\ cash_flow_summary = <<>>
    /\ kpi = None
    /\ df = None
    /\ processed = None
    /\ df_cols = {}
    /\ file_type = ""
    /\ amount_cell = None
    /\ parsed = None

\* The one element of a singleton set.  The rerun below is written with bound
\* variables over singletons so that each part of it is computed once.
the(S) == CHOOSE x \in S : TRUE

\* The value of st.session_state.initial_balance_date after the date widget ran
\* (273-293), b being the session after the processing block.
\* keeps: whether st.date_input (key "widget_initial_balance_date") keeps the
\* value it had in the previous rerun or is built anew from its value= argument;
\* Streamlit versions differ on it when the arguments change.
selected_anchor(b, keeps, old_earliest, old_anchor) ==
    LET current_initial_date_val ==
            IF b.initial_balance_date = None THEN b.earliest_date ELSE b.initial_balance_date
        selected_initial_date ==
            IF keeps /\ old_earliest # None THEN old_anchor ELSE current_initial_date_val
    IN  IF b.earliest_date # None THEN selected_initial_date ELSE b.initial_balance_date

\* main_on_process rendering the ledger with the anchor the session held before
\* the run
main_on_process_stale_anchor(fs, keeps, old_earliest, old_anchor, amount) ==
    the({the({the({[data_loaded |-> b.data_loaded,
                    all_transactions_df |-> b.all_transactions_df,
                    processed_dfs |-> b.processed_dfs,
                    earliest_date |-> b.earliest_date,
                    initial_balance_date |-> anchor,
                    cash_flow_summary |-> summary,
                    kpi |-> rendered_kpi(summary, amount)] :
                   summary \in {rendered_summary(b.data_loaded, b.all_transactions_df,
                                                 IF old_anchor # None THEN old_anchor
                                                 ELSE anchor, amount)}}) :
              anchor \in {selected_anchor(b, keeps, old_earliest, old_anchor)}}) :
         b \in {processing_block(fs, old_earliest, old_anchor)}})

\* The session and what is rendered after main() ran with the Process button
\* pressed over the slots fs, from the session's earliest_date,
\* initial_balance_date and initial_balance_amount.
main_on_process(fs, keeps, old_earliest, old_anchor, amount) ==
    the({the({the({[data_loaded |-> b.data_loaded,
                    all_transactions_df |-> b.all_transactions_df,
                    processed_dfs |-> b.processed_dfs,
                    earliest_date |-> b.earliest_date,
                    initial_balance_date |-> anchor,
                    cash_flow_summary |-> summary,
                    kpi |-> rendered_kpi(summary, amount)] :
                   summary \in {rendered_summary(b.data_loaded, b.all_transactions_df,
                                                 anchor, amount)}}) :
              anchor \in {selected_anchor(b, keeps, old_earliest, old_anchor)}}) :
         b \in {processing_block(fs, old_earliest, old_anchor)}})

\* A rerun of main() with the Process button pressed, the slots holding fs.
Process(fs, keeps) ==
    /\ files' = fs
    /\ \E r \in {main_on_process(fs, keeps, earliest_date, initial_balance_date,
                                  initial_balance_amount)} :
          /\ data_loaded' = r.data_loaded
          /\ all_transactions_df' = r.all_transactions_df
          /\ processed_dfs' = r.processed_dfs
          /\ earliest_date' = r.earliest_date
          /\ initial_balance_date' = r.initial_balance_date
          /\ initial_balance_amount' = initial_balance_amount
          /\ cash_flow_summary' = r.cash_flow_summary
          /\ kpi' = r.kpi
    /\ UNCHANGED <<df, processed, df_cols, file_type, amount_cell, parsed>>

\* A rerun caused by the user picking another date in "Data do Saldo Inicial"
\* (shown once earliest_date is known; min_value and max_value bound the choice).
SetInitialDate(d) ==
    /\ earliest_date # None
    /\ d >= earliest_date.day - AnchorDaysBefore
    /\ d <= earliest_date.day + AnchorDaysAfter
    /\ initial_balance_date # date(d)
    /\ initial_balance_date' = date(d)
    /\ \E summary \in {rendered_summary(data_loaded, all_transactions_df, date(d),
                                        initial_balance_amount)} :
          /\ cash_flow_summary' = summary
          /\ kpi' = rendered_kpi(summary, initial_balance_amount)
    /\ UNCHANGED <<data_loaded, all_transactions_df, earliest_date, initial_balance_amount,
                   processed_dfs, files, df, processed, df_cols, file_type, amount_cell, parsed>>

\* A rerun caused by the user typing another amount in "Saldo de Caixa em ...".
SetInitialAmount(a) ==
    /\ earliest_date # None
    /\ initial_balance_amount # a
    /\ initial_balance_amount' = a
    /\ \E summary \in {rendered_summary(data_loaded, all_transactions_df,
                                        initial_balance_date, a)} :
          /\ cash_flow_summary' = summary
          /\ kpi' = rendered_kpi(summary, a)
    /\ UNCHANGED <<data_loaded, all_transactions_df, earliest_date, initial_balance_date,
                   processed_dfs, files, df, processed, df_cols, file_type, amount_cell, parsed>>

Next ==
    \/ \E fs \in FileSlots, keeps \in BOOLEAN : Process(fs, keeps)
    \/ \E d \in Days : SetInitialDate(d)
    \/ \E a \in Balances : SetInitialAmount(a)

Spec == Init /\ [][Next]_vars

\* ------------------------------------ the row processors, one table at a time
\* Cells of the row-processing specification.
DayText(fmt, d) == StrCell([fmt |-> fmt, day |-> d, tick |-> 0])

PagasRows ==
    {[c \in {"Título", "Parcela", "Data pagamento", "Valor Líquido", "Código credor",
             "Desc centro custo"} |->
        CASE c = "Título" -> StrCell(r[1])
          [] c = "Parcela" -> NumCell(1)
          [] c = "Data pagamento" -> r[2]
          [] c = "Valor Líquido" -> StrCell(r[3])
          [] c = "Código credor" -> NumCell(r[4])
          [] OTHER -> StrCell(r[5])] :
     r \in {"T1"} \X {DayText("%d/%m/%Y", 0), NaN}
           \X {<<"3", ",", "0">>, <<"-", "3", ",", "0">>, <<"0", ",", "0">>}
           \X {1, 2} \X {"CC1", "CC2"}}

APagarRows ==
    {[c \in {"Título", "Data vencimento", "Valor a pagar", "Desc centro custo"} |->
        CASE c = "Título" -> StrCell(r[1])
          [] c = "Data vencimento" -> r[2]
          [] c = "Valor a pagar" -> StrCell(r[3])
          [] OTHER -> StrCell(r[4])] :
     r \in {"T1", "T2"} \X {DayText("%Y-%m-%d", 1), NaN}
           \X {<<"2", ",", "0">>, <<"-", "2", ",", "0">>, <<"a">>}
           \X {"CC1", "CC2"}}

ReceberRows ==
    {[c \in {"Status da parcela", "Data da baixa", "Valor da baixa", "Data vencimento",
             "Valor devido"} |->
        CASE c = "Status da parcela" -> StrCell(r[1])
          [] c = "Data da baixa" -> r[2]
          [] c = "Valor da baixa" -> StrCell(r[3])
          [] c = "Data vencimento" -> r[4][1]
          [] OTHER -> StrCell(r[4][2])] :
     r \in {"A Receber", "Recebido", "Cancelado"} \X {DayText("%d/%m/%Y", 0), NaN}
           \X {<<"5", ",", "0">>, <<"-", "5", ",", "0">>, <<"0", ",", "0">>}
           \X {<<DayText("%d/%m/%Y", 1), <<"4", ",", "0">>>>,
               <<DayText("%d/%m/%Y", 1), <<"a">>>>}}

\* The sequences of at most n elements of S
SeqsUpTo(S, n) == UNION {[1..k -> S] : k \in 0..n}

\* The tables of each kind with at most n rows
RowFiles(n) ==
    {mk_file(PagasColumns, rows) : rows \in SeqsUpTo(PagasRows, n)} \cup
    {mk_file(APagarColumns, rows) : rows \in SeqsUpTo(APagarRows, n)} \cup
    {mk_file(ReceberColumns, rows) : rows \in SeqsUpTo(ReceberRows, n)}

DataFrame(rows) == [kind |-> "DataFrame", rows |-> rows]

InitRows ==
    /\ df \in RowFiles(MaxRows)
    /\ processed = None
    /\ data_loaded = FALSE
    /\ all_transactions_df = <<>>
    /\ earliest_date = None
    /\ initial_balance_date = None
    /\ initial_balance_amount = 0
    /\ processed_dfs = <<>>
    /\ files = <<None, None, None, None, None, None>>
    /\ cash_flow_summary = <<>>
    /\ kpi = None
    /\ df_cols = {}
    /\ file_type = ""
    /\ amount_cell = None
    /\ parsed = None

\* The variables the loop body over one table leaves alone
session_vars ==
    <<df, data_loaded, all_transactions_df, earliest_date, initial_balance_date,
      initial_balance_amount, processed_dfs, files, cash_flow_summary, kpi,
      df_cols, file_type, amount_cell, parsed>>

\* The body of the loop over final_files_list (241-251) for the table df, one
\* action per branch of the dispatch on the kind load_and_process_csv resolves.
ProcessPagas ==
    /\ processed = None
    /\ \E r \in {load_and_process_csv(df)} :
          /\ r[2] = "Contas Pagas"
          /\ processed' = DataFrame(process_contas_pagas(r[1]))
    /\ UNCHANGED session_vars

ProcessAPagar ==
    /\ processed = None
    /\ \E r \in {load_and_process_csv(df)} :
          /\ r[2] = "Contas a Pagar"
          /\ processed' = DataFrame(process_contas_a_pagar(r[1]))
    /\ UNCHANGED session_vars

ProcessReceber ==
    /\ processed = None
    /\ \E r \in {load_and_process_csv(df)} :
          /\ r[2] = "Contas a Receber/Recebidas"
          /\ processed' = DataFrame(process_contas_receber_recebidas(r[1]))
    /\ UNCHANGED session_vars

NextRows == ProcessPagas \/ ProcessAPagar \/ ProcessReceber

SpecRows == InitRows /\ [][NextRows]_vars

\* ------------------------------------------------- schema resolution alone
\* The header names identify_csv_type looks for, and the two columns the
\* payable processor reads.
IdentifyColumns ==
    COLS_PAGAS_IDENTIFIERS \cup COLS_A_PAGAR_IDENTIFIERS \cup COLS_RECEBER_RECEBIDAS_IDENTIFIERS
    \cup {"Valor corr monetária", "Data cadastro", "Código forma pagto",
          "Data vencimento", "Valor a pagar"}

InitIdentify ==
    /\ df_cols \in SUBSET IdentifyColumns
    /\ file_type = ""
    /\ df = None
    /\ processed = None
    /\ data_loaded = FALSE
    /\ all_transactions_df = <<>>
    /\ earliest_date = None
    /\ initial_balance_date = None
    /\ initial_balance_amount = 0
    /\ processed_dfs = <<>>
    /\ files = <<None, None, None, None, None, None>>
    /\ cash_flow_summary = <<>>
    /\ kpi = None
    /\ amount_cell = None
    /\ parsed = None

\* file_type = identify_csv_type(df.columns) (67)
Identify ==
    /\ file_type = ""
    /\ file_type' = identify_csv_type(df_cols)
    /\ UNCHANGED <<df_cols, df, processed, data_loaded, all_transactions_df, earliest_date,
                   initial_balance_date, initial_balance_amount, processed_dfs, files,
                   cash_flow_summary, kpi, amount_cell, parsed>>

NextIdentify == Identify

SpecIdentify == InitIdentify /\ [][NextIdentify]_vars

\* The session's values have the shapes the code gives them; a loaded session
\* stores an anchor date.
TypeOK ==
    /\ data_loaded \in BOOLEAN
    /\ data_loaded => initial_balance_date # None /\ earliest_date # None
    /\ data_loaded <=> cash_flow_summary # <<>>

\* ===================================================== properties of the rows
\* The table the loop body read, and the transactions it produced
table == load_and_process_csv(df)
transactions == processed.rows
Outflows == {"Realizado Saída", "Projetado Saída"}
Inflows == {"Realizado Entrada", "Projetado Entrada"}

\* C5 as stated: no transaction of a processed table has a zero amount.
C5_NoZeroAmount ==
    processed # None => \A i \in 1..Len(transactions) : transactions[i].Valor # 0

\* C6: every outflow transaction (realized or projected) has an amount <= 0 and
\* every inflow transaction an amount >= 0, whatever the sign written in the
\* source table; every transaction has one of the four classifications.
C6_SignFollowsClassification ==
    processed # None =>
        \A i \in 1..Len(transactions) :
            /\ transactions[i].Tipo \in Outflows \cup Inflows
            /\ transactions[i].Tipo \in Outflows => transactions[i].Valor <= 0
            /\ transactions[i].Tipo \in Inflows => transactions[i].Valor >= 0

\* An outflow written with a positive amount, an outflow written with a
\* negative one, or an inflow written with a negative one, was processed.
C6_Witness ==
    /\ processed # None
    /\ Len(transactions) = 2
    /\ \/ /\ table[2] = "Contas Pagas"
          /\ table[1].rows[1]["Valor Líquido"] = StrCell(<<"3", ",", "0">>)
          /\ table[1].rows[2]["Valor Líquido"] = StrCell(<<"-", "3", ",", "0">>)
          /\ transactions[1].Valor = -(3 * Scale)
          /\ transactions[2].Valor = -(3 * Scale)
       \/ /\ table[2] = "Contas a Receber/Recebidas"
          /\ table[1].rows[1]["Valor da baixa"] = StrCell(<<"-", "5", ",", "0">>)
          /\ transactions[1].Valor = 5 * Scale

\* The deduplication key of a paid row
payment_key(row) ==
    <<row["Título"], row["Parcela"], row["Data pagamento"], row["Valor Líquido"],
      row["Código credor"]>>

payment_keys == {payment_key(table[1].rows[i]) : i \in 1..Len(table[1].rows)}

\* The keys whose payment date parses and whose net amount is nonzero
admitted_keys ==
    {k \in payment_keys : parse_date(k[3]) # None /\ parse_decimal_br(k[4]) # 0}

\* The first row of the table with the key k
first_row(k) ==
    table[1].rows[CHOOSE i \in 1..Len(table[1].rows) :
                     /\ payment_key(table[1].rows[i]) = k
                     /\ \A j \in 1..(i - 1) : payment_key(table[1].rows[j]) # k]

\* The transactions a key accounts for
of_key(k) ==
    {i \in 1..Len(transactions) :
        /\ transactions[i].Tipo = "Realizado Saída"
        /\ transactions[i].Data = parse_date(k[3]).ts
        /\ transactions[i].Valor = -abs(parse_decimal_br(k[4]))}

\* C7 as stated: a paid table yields exactly one realized outflow per distinct
\* (Título, Parcela, Data pagamento, Valor Líquido, Código credor).
C7_OnePerSharedKey ==
    (processed # None /\ table[2] = "Contas Pagas") =>
        Len(transactions) = Cardinality(payment_keys)

\* C7 amended: a paid table yields exactly one realized outflow per distinct
\* key whose payment date parses and whose net amount is nonzero, of that date
\* and of minus the amount's magnitude, detailed as the first row of the key,
\* and none for the other keys.
C7_OnePerAdmittedKey ==
    (processed # None /\ table[2] = "Contas Pagas") =>
        /\ Len(transactions) = Cardinality(admitted_keys)
        /\ \A k \in admitted_keys :
              \E i \in of_key(k) : transactions[i].Detalhe = first_row(k)["Desc centro custo"]

\* Two rows sharing the key and differing in the cost centre gave one
\* transaction, detailed as the first
C7_Witness ==
    /\ processed # None
    /\ table[2] = "Contas Pagas"
    /\ Len(table[1].rows) = 2
    /\ table[1].rows[1]["Desc centro custo"] # table[1].rows[2]["Desc centro custo"]
    /\ payment_key(table[1].rows[1]) = payment_key(table[1].rows[2])
    /\ Len(transactions) = 1
    /\ transactions[1].Detalhe = table[1].rows[1]["Desc centro custo"]

\* ====================================== properties of the schema resolution
Kinds == {"Contas Pagas", "Contas a Pagar", "Contas a Receber/Recebidas", "Desconhecido"}

\* C9 as stated: a header resolved as Payable has 'Data vencimento' and
\* 'Valor a pagar' and has neither 'Data pagamento' nor 'Status da parcela'.
C9_PayableHasDueDateAndAmount ==
    file_type = "Contas a Pagar" =>
        /\ {"Data vencimento", "Valor a pagar"} \subseteq df_cols
        /\ "Data pagamento" \notin df_cols
        /\ "Status da parcela" \notin df_cols

\* C10: a header resolved as Paid has 'Data pagamento' and lacks 'Status da
\* parcela', and every resolution is one of the four kinds.
C10_PaidHasPaymentDate ==
    file_type # "" =>
        /\ file_type \in Kinds
        /\ file_type = "Contas Pagas" =>
              /\ "Data pagamento" \in df_cols
              /\ "Status da parcela" \notin df_cols

\* A header with every column except 'Status da parcela' was resolved as Paid
C10_Witness ==
    /\ file_type = "Contas Pagas"
    /\ df_cols = IdentifyColumns \ {"Status da parcela"}

\* ==================================================== properties of the ledger
ledger == cash_flow_summary
bucket_day(i) == date_of(ledger[i].Data)
anchor_day == initial_balance_date.day
first_day == date_of(min_ts(all_transactions_df))
last_day == date_of(max_ts(all_transactions_df))

\* The buckets whose calendar day is the anchor date
anchor_buckets == {i \in 1..Len(ledger) : bucket_day(i) = anchor_day}

\* C1 as stated: the bucket of the anchor date holds the opening balance plus
\* its own realized flow, every later bucket its predecessor's balance plus its
\* own realized flow, every earlier bucket its successor's balance minus the
\* successor's realized flow.
C1_AnchoringCorrect ==
    ledger # <<>> =>
        /\ \A i \in anchor_buckets :
              ledger[i].PosicaoCaixaAcumulada =
                  initial_balance_amount + ledger[i].FluxoRealizadoDiario
        /\ \A i \in 2..Len(ledger) :
              bucket_day(i) > anchor_day =>
                  ledger[i].PosicaoCaixaAcumulada =
                      ledger[i - 1].PosicaoCaixaAcumulada + ledger[i].FluxoRealizadoDiario
        /\ \A i \in 1..(Len(ledger) - 1) :
              bucket_day(i) < anchor_day =>
                  ledger[i].PosicaoCaixaAcumulada =
                      ledger[i + 1].PosicaoCaixaAcumulada - ledger[i + 1].FluxoRealizadoDiario

\* C2 as stated: the buckets' calendar days are every day from the earlier of
\* the anchor date and the earliest transaction date to the later of the anchor
\* date and the latest transaction date, each once, in ascending order.
C2_BucketDatesComplete ==
    ledger # <<>> =>
        LET lo == IF anchor_day < first_day THEN anchor_day ELSE first_day
            hi == IF anchor_day > last_day THEN anchor_day ELSE last_day
        IN  [i \in 1..Len(ledger) |-> bucket_day(i)] = [i \in 1..(hi - lo + 1) |-> lo + i - 1]

\* C3 as stated: a Process run of a session that stores an anchor date leaves
\* the stored anchor date and the opening balance as they were.
C3_ProcessKeepsAnchor ==
    [][((\E fs \in FileSlots, keeps \in BOOLEAN : Process(fs, keeps))
          /\ initial_balance_date # None)
       => (/\ initial_balance_date' = initial_balance_date
           /\ initial_balance_amount' = initial_balance_amount)]_vars

\* The bucket at the anchor's own timestamp, and the realized flow before bucket i
anchor_idx == {i \in 1..Len(ledger) : ledger[i].Data = to_datetime(initial_balance_date)}
flows_before(i) == sum_seq([j \in 1..(i - 1) |-> ledger[j].FluxoRealizadoDiario])

ledger_with_payable(p) ==
    LET b == processing_block([files EXCEPT ![2] = p], earliest_date, initial_balance_date)
    IN  IF b.all_transactions_df = <<>> THEN <<>>
        ELSE build_cash_flow_summary(b.all_transactions_df, initial_balance_date,
                                     initial_balance_amount)

\* C8 as stated: with the realized transactions, the anchor date and the
\* opening balance held fixed, the cumulative balance of every calendar day
\* that two ledgers share does not depend on the payable rows.
C8_ProjectedNeverChangeBalance ==
    ledger # <<>> =>
        \A p \in APagarSlot :
            \A other \in {ledger_with_payable(p)} :
                \A i \in 1..Len(ledger), j \in 1..Len(other) :
                    bucket_day(i) = date_of(other[j].Data) =>
                        ledger[i].PosicaoCaixaAcumulada = other[j].PosicaoCaixaAcumulada

\* ===================================== schema resolution of decorated headers
\* The names identify_csv_type requires or forbids for the paid and the
\* receivable kind
HeaderNames == COLS_PAGAS_IDENTIFIERS \cup COLS_RECEBER_RECEBIDAS_IDENTIFIERS

\* A header that carries the name c inside a longer text
Decorated(c) ==
    CASE c = "Data pagamento" -> "Data pagamento (dd/mm/aaaa)"
      [] c = "Valor Líquido" -> "Valor Líquido (R$)"
      [] c = "Usuário cadastro baixa" -> "Usuário cadastro baixa *"
      [] c = "Desc forma pagto" -> "Desc forma pagto *"
      [] c = "Status da parcela" -> "Status da parcela *"
      [] c = "Nosso número" -> "Nosso número *"
      [] c = "Valor da baixa" -> "Valor da baixa (R$)"
      [] c = "Valor devido" -> "Valor devido (R$)"

\* How a file writes the header of a name: not at all, as the name, as the
\* name followed by whitespace, or decorated
HeaderForms == {"absent", "plain", "padded", "decorated"}

raw_headers(form) ==
    {[name |-> IF form[c] = "decorated" THEN Decorated(c) ELSE c,
      pad |-> form[c] = "padded"] : c \in {n \in HeaderNames : form[n] # "absent"}}

HeaderFiles ==
    {[readable |-> TRUE, columns |-> raw_headers(form), rows |-> <<>>] :
        form \in [HeaderNames -> HeaderForms]}

InitHeaders ==
    /\ df \in HeaderFiles
    /\ df_cols = {}
    /\ file_type = ""
    /\ processed = None
    /\ data_loaded = FALSE
    /\ all_transactions_df = <<>>
    /\ earliest_date = None
    /\ initial_balance_date = None
    /\ initial_balance_amount = 0
    /\ processed_dfs = <<>>
    /\ files = <<None, None, None, None, None, None>>
    /\ cash_flow_summary = <<>>
    /\ kpi = None
    /\ amount_cell = None
    /\ parsed = None

\* pd.read_csv, the clean-up of the column names and identify_csv_type (64-67)
ReadHeaders ==
    /\ file_type = ""
    /\ \E d \in {read_csv(df)} :
          /\ df_cols' = d.columns
          /\ file_type' = identify_csv_type(d.columns)
    /\ UNCHANGED <<df, processed, data_loaded, all_transactions_df, earliest_date,
                   initial_balance_date, initial_balance_amount, processed_dfs, files,
                   cash_flow_summary, kpi, amount_cell, parsed>>

NextHeaders == ReadHeaders

SpecHeaders == InitHeaders /\ [][NextHeaders]_vars

\* The name c occurs inside some header of the file
occurs(c) == \E h \in df.columns : h.name = c \/ h.name = Decorated(c)

\* C11 as stated: a table in which every required name of a kind occurs
\* inside some header, and no forbidden name does, is resolved to that kind
\* (Paid requires its four identifiers and forbids 'Status da parcela';
\* Receivable requires its four identifiers).
C11_SubstringMatch ==
    file_type # "" =>
        /\ ((\A c \in COLS_PAGAS_IDENTIFIERS : occurs(c)) /\ ~occurs("Status da parcela"))
              => file_type = "Contas Pagas"
        /\ (\A c \in COLS_RECEBER_RECEBIDAS_IDENTIFIERS : occurs(c))
              => file_type = "Contas a Receber/Recebidas"

\* ======================================= properties of a run over several tables
\* What a supplied table contributes when it is the only one supplied
alone(f) ==
    processing_block(<<f, None, None, None, None, None>>, None, None).all_transactions_df

contribution(f) == IF f = None THEN <<>> ELSE alone(f)

\* The table does not load: pd.read_csv fails on it or its kind is 'Desconhecido'
not_loaded(f) == f # None /\ load_and_process_csv(f)[1] = None

\* C12: a table that is unreadable or of no known kind contributes no
\* transaction, and the unified set of a run is made of what each of the
\* other supplied tables contributes when supplied alone.
C12_UnrecognizedNeverAborts ==
    /\ \A i \in 1..Len(files) : not_loaded(files[i]) => contribution(files[i]) = <<>>
    /\ all_transactions_df =
          sort_values(flatten([i \in 1..Len(files) |-> contribution(files[i])]))

\* A run over a table of no known kind and two recognized tables, both of
\* which contributed
C12_Witness ==
    /\ files[1] = mk_file(OtherColumns, <<>>)
    /\ files[2] # None
    /\ files[3] # None
    /\ Len(all_transactions_df) = 2

\* ------------------------------------------------ the amount-parsing specification
\* One cell is handed to parse_decimal_br; parsed holds what it returned.
\* Characters the enumerated amount texts are made of.
AmountChars == {"1", ".", ",", "a", "-", " "}

\* The amount texts of the functional description, character by character.
ExampleTexts ==
    { <<"1", ".", "2", "3", "4", ",", "5", "6">>,
      <<"7", ".", "5", "0", "0", ",", "0", "0">>,
      <<"1", ".", "2", "3", "4">>,
      <<"R", "$", " ", "1", ".", "2", "3", "4", ",", "5", "6">>,
      <<"a", "b", "c">>,
      <<"1", "2", "a", "b", "c">>,
      <<"(", "1", "0", "0", ")">> }

AmountCells(n) ==
    {StrCell(t) : t \in SeqsUpTo(AmountChars, n) \cup ExampleTexts} \cup {NaN, NumCell(1)}

float(x) == [kind |-> "float", val |-> x]

InitAmount ==
    /\ amount_cell \in AmountCells(MaxLen)
    /\ parsed = None
    /\ data_loaded = FALSE
    /\ all_transactions_df = <<>>
    /\ earliest_date = None
    /\ initial_balance_date = None
    /\ initial_balance_amount = 0
    /\ processed_dfs = <<>>
    /\ files = <<None, None, None, None, None, None>>
    /\ cash_flow_summary = <<>>
    /\ kpi = None
    /\ df = None
    /\ processed = None
    /\ df_cols = {}
    /\ file_type = ""

Parse ==
    /\ parsed = None
    /\ parsed' = float(parse_decimal_br(amount_cell))
    /\ UNCHANGED <<data_loaded, all_transactions_df, earliest_date, initial_balance_date,
                   initial_balance_amount, processed_dfs, files, cash_flow_summary, kpi,
                   df, processed, df_cols, file_type, amount_cell>>

NextAmount == Parse

SpecAmount == InitAmount /\ [][NextAmount]_vars

\* The text of a cell once the currency symbol and the surrounding whitespace are gone.
amount_body(t) == strip(replace_currency(t))

comma_count(s) == Cardinality({i \in 1..Len(s) : s[i] = ","})

\* The part of s before its comma (all of s when it has none), and the part after.
integer_part(s) == IF contains(s, ",") THEN SubSeq(s, 1, rfind(s, ",")) ELSE s
decimal_part(s) == IF contains(s, ",") THEN SubSeq(s, rfind(s, ",") + 2, Len(s)) ELSE <<>>

\* Digits in groups that periods separate: one to three digits, then groups of three.
RECURSIVE grouped(_)
grouped(s) ==
    IF ~contains(s, ".")
    THEN Len(s) \in 1..3 /\ \A i \in 1..Len(s) : isdigit(s[i])
    ELSE /\ Len(s) >= 5
         /\ s[Len(s) - 3] = "."
         /\ \A i \in (Len(s) - 2)..Len(s) : isdigit(s[i])
         /\ grouped(SubSeq(s, 1, Len(s) - 4))

plain_digits(s) == s # <<>> /\ \A i \in 1..Len(s) : isdigit(s[i])

\* Locale-formatted text: digits, periods as thousands separators, at most one
\* comma as the decimal separator, an optional currency symbol and whitespace around.
locale_formatted(t) ==
    LET s == amount_body(t)
    IN  /\ comma_count(s) <= 1
        /\ grouped(integer_part(s)) \/ plain_digits(integer_part(s))
        /\ \A i \in 1..Len(decimal_part(s)) : isdigit(decimal_part(s)[i])

\* The number such a text spells: every period removed, the comma as decimal point.
locale_value(t) ==
    LET s == amount_body(t)
    IN  digits_value(remove_dots(integer_part(s))) * Scale + frac_value(decimal_part(s))

\* C13 as stated: a locale-formatted text parses to the number it spells with every
\* period removed and the comma read as the decimal point ('1.234' gives 1234).
C13_LocaleTextParsed ==
    (parsed # None /\ amount_cell.kind = "str" /\ locale_formatted(amount_cell.text))
        => parsed.val = locale_value(amount_cell.text)

\* Characters that are part of no number: anything but a digit, a separator or a sign.
residue(t) ==
    \E i \in 1..Len(amount_body(t)) :
        ~(isdigit(amount_body(t)[i]) \/ amount_body(t)[i] \in {".", ",", "-", "+"})

\* C14 as stated: a text with non-numeric residue ('abc', '12abc', '(100)') parses to 0.
C14_ResidueGivesZero ==
    (parsed # None /\ amount_cell.kind = "str" /\ residue(amount_cell.text))
        => parsed.val = 0

\* ------------------------------------------------ a second run on the same inputs
\* What Process would give if it ran again from the state a step ends in, over the
\* same slots and with the date widget behaving as it did in the step.
second_run(keeps) ==
    main_on_process(files', keeps, earliest_date', initial_balance_date',
                    initial_balance_amount')

\* The second run leaves the transaction set, the buckets and the KPIs as the
\* step left them.
reproduced(keeps) ==
    \E again \in {second_run(keeps)} :
        /\ again.all_transactions_df = all_transactions_df'
        /\ again.cash_flow_summary = cash_flow_summary'
        /\ again.kpi = kpi'

\* C15: whatever the session held before, a Process step followed by a second
\* Process over the same inputs leaves the transaction set, the buckets and the
\* KPIs as the first run left them: every step either is reproduced by the
\* second run, or is not a Process step with that behaviour of the date widget.
C15_ProcessIdempotent ==
    [][\A keeps \in BOOLEAN : reproduced(keeps) \/ ~Process(files', keeps)]_vars

\* A run over two tables, in a session whose anchor lies after the earliest
\* date and whose opening balance is not zero, that a second run reproduces.
C15_Witness ==
    /\ data_loaded
    /\ Len(all_transactions_df) >= 2
    /\ initial_balance_amount # 0
    /\ initial_balance_date.day > earliest_date.day
    /\ Len(cash_flow_summary) > 1
    /\ \E again \in {main_on_process(files, TRUE, earliest_date, initial_balance_date,
                                       initial_balance_amount)} :
           /\ again.all_transactions_df = all_transactions_df
           /\ again.cash_flow_summary = cash_flow_summary
           /\ again.kpi = kpi

\* ------------------------------------------------ transactions and their buckets
flow_cols == {"Realizado Entrada", "Realizado Saída", "Projetado Entrada", "Projetado Saída"}

\* cash_flow_summary[col] at bucket i
bucket_flow(i, col) ==
    CASE col = "Realizado Entrada" -> ledger[i].RealizadoEntrada
      [] col = "Realizado Saída" -> ledger[i].RealizadoSaida
      [] col = "Projetado Entrada" -> ledger[i].ProjetadoEntrada
      [] col = "Projetado Saída" -> ledger[i].ProjetadoSaida

\* The transactions of one Tipo on calendar day d, summed, whatever their time of day
day_total(d, col) ==
    sum_seq([i \in 1..Len(all_transactions_df) |->
                IF date_of(all_transactions_df[i].Data) = d /\ all_transactions_df[i].Tipo = col
                THEN all_transactions_df[i].Valor ELSE 0])

\* All the transactions of one Tipo, summed
kind_total(col) ==
    sum_seq([i \in 1..Len(all_transactions_df) |->
                IF all_transactions_df[i].Tipo = col THEN all_transactions_df[i].Valor ELSE 0])

\* C16 as stated: every transaction has exactly one bucket of its calendar day,
\* every bucket's flow of a kind is the sum of the day's transactions of that
\* kind, and the bucket flows of a kind add up to all its transactions.
C16_EveryTransactionInItsDayBucket ==
    ledger # <<>> =>
        /\ \A t \in 1..Len(all_transactions_df) :
               Cardinality({i \in 1..Len(ledger) :
                               bucket_day(i) = date_of(all_transactions_df[t].Data)}) = 1
        /\ \A i \in 1..Len(ledger), col \in flow_cols :
               bucket_flow(i, col) = day_total(bucket_day(i), col)
        /\ \A col \in flow_cols :
               sum_seq([i \in 1..Len(ledger) |-> bucket_flow(i, col)]) = kind_total(col)

\* ------------------------------------------------ the loaded flag after a run
\* The transactions the tables in the slots yield, each table on its own
from_inputs ==
    UNION {{contribution(files[j])[k] : k \in 1..Len(contribution(files[j]))} :
              j \in 1..Len(files)}

\* C17: data_loaded is true exactly when the unified set is not empty, the set
\* holds only transactions of the tables the run was given, and a run whose
\* tables yield no transaction ends not loaded, with the empty set.
C17_LoadedIffNonEmpty ==
    /\ data_loaded <=> all_transactions_df # <<>>
    /\ \A i \in 1..Len(all_transactions_df) : all_transactions_df[i] \in from_inputs
    /\ from_inputs = {} => ~data_loaded /\ all_transactions_df = <<>>

\* A run over an unreadable file alone, in a session that an earlier run had loaded
C17_Witness ==
    /\ earliest_date # None
    /\ files[1] = unreadable_file
    /\ files[2] = None
    /\ files[3] = None
    /\ ~data_loaded
    /\ all_transactions_df = <<>>

====
